---------------------------- MODULE Spec2Model ----------------------------
(***************************************************************************)
(* Great Hammerhead age pipeline                                           *)
(* (src/Great_Hammerhead_Shark_Age_Calculation.ipynb).                     *)
(*                                                                         *)
(* The notebook is a straight-line program of seven code cells.  Each cell *)
(* is one action; pc names the next cell to run.  A Python exception in a  *)
(* cell stops the run (pc = "failed").                                     *)
(*                                                                         *)
(* Numbers.  A double is a record [k, v]:                                  *)
(*    k = "fin"  a finite value, v an integer on a decimal grid            *)
(*    k = "nan"  NaN (pandas' missing marker), v = 0                       *)
(*    k = "inf"  an infinity, v = 1 or -1 its sign                         *)
(* Lengths are in 10^-3 cm, ages in 10^-6 years, slopes in 10^-9,          *)
(* logarithms in 10^-7.  Every value and every intermediate product stays  *)
(* below 2^31: wide products are formed digit by digit.  The natural       *)
(* logarithm is computed (binary logarithm by repeated squaring), which    *)
(* makes an age accurate to a few 10^-6 years.                             *)
(***************************************************************************)
EXTENDS Integers, Sequences, FiniteSets, TLC

VARIABLES
    pc,                      \* next notebook cell, or "done" / "failed" / "idle"
    GHH_CSV,                 \* the input file GHH_CSV.csv: column name -> cells
    Adult_specimens,         \* the DataFrame: column name -> cells
    Vertebral_aged_FL,       \* list of reference fork lengths
    Vertebral_vb_estimation, \* VB ages of the reference fork lengths
    Vertebral_vb_array,      \* rows <<vertebral age, VB age>> given to the fit
    slope,                   \* model.coef_[0][0]
    intercept,               \* model.intercept_[0]
    y_pred,                  \* model.predict(Vertebral_age_array)
    error,                   \* the exception that stopped the run, or "none"
    written,                 \* the exported file, or <<>> when none is written
    call_pc,                 \* a single estimator call: "call" / "returned" / "idle"
    call_sex,                \* its sex argument
    call_Lt,                 \* its fork length argument
    call_Age                 \* its return value

vars == <<pc, GHH_CSV, Adult_specimens, Vertebral_aged_FL, Vertebral_vb_estimation,
          Vertebral_vb_array, slope, intercept, y_pred, error, written,
          call_pc, call_sex, call_Lt, call_Age>>

-----------------------------------------------------------------------------
(* Doubles *)

NaN == [k |-> "nan", v |-> 0]

PosInf == [k |-> "inf", v |-> 1]

NegInf == [k |-> "inf", v |-> -1]

Fin(n) == [k |-> "fin", v |-> n]

isnan(x) == x.k = "nan"

isinf(x) == x.k = "inf"

isfinite(x) == x.k = "fin"

\* x <= 0 on doubles: False for NaN.
LeZero(x) == (x.k = "fin" /\ x.v <= 0) \/ (x.k = "inf" /\ x.v < 0)

Abs(n) == IF n < 0 THEN -n ELSE n

Sign(n) == IF n < 0 THEN -1 ELSE IF n > 0 THEN 1 ELSE 0

\* floor(a * b / c) for a, b >= 0 and c > 0 with (c - 1) * b < 2^31:
\* a * b / c = (a \div c) * b + ((a % c) * b) / c.
MulDivSmall(a, b, c) == (a \div c) * b + (((a % c) * b) \div c)

\* a * b / c rounded toward zero, any signs of a and b.
SMulDivSmall(a, b, c) == Sign(a) * Sign(b) * MulDivSmall(Abs(a), Abs(b), c)

\* floor(a * b / 2^30) for 0 <= a < 2^29, 0 <= b < 2^30, by 15-bit halves.
MulShift30(a, b) ==
    LET a1 == a \div 2^15
        a0 == a % 2^15
        b1 == b \div 2^15
        b0 == b % 2^15
    IN  a1 * b1 + ((a1 * b0 + a0 * b1 + ((a0 * b0) \div 2^15)) \div 2^15)

\* floor(a * b / 10^9) for 0 <= a, b < 10^9, by base-1000 digits with carries.
MulNano(a, b) ==
    LET a2 == a \div 10^6
        a1 == (a \div 10^3) % 10^3
        a0 == a % 10^3
        b2 == b \div 10^6
        b1 == (b \div 10^3) % 10^3
        b0 == b % 10^3
        d0 == (a0 * b0) \div 10^3
        d1 == (a1 * b0 + a0 * b1 + d0) \div 10^3
        d2 == (a2 * b0 + a1 * b1 + a0 * b2 + d1) \div 10^3
    IN  a2 * b2 * 10^3 + a2 * b1 + a1 * b2 + d2

\* a * b / 10^9 rounded toward zero, any signs.
SMulNano(a, b) == Sign(a) * Sign(b) * MulNano(Abs(a), Abs(b))

\* floor(r * 10^digits / c) for 0 <= r < c < 2^31 / 10, by long division.
RECURSIVE FracDigits(_, _, _)
FracDigits(r, c, digits) ==
    IF digits = 0 THEN 0
    ELSE ((10 * r) \div c) * 10^(digits - 1) + FracDigits((10 * r) % c, c, digits - 1)

\* floor(a * 10^9 / c) for a >= 0, 0 < c < 2^31 / 10.
DivNano(a, c) == (a \div c) * 10^9 + FracDigits(a % c, c, 9)

\* a / c in 10^-9, rounded toward zero, c # 0.
SDivNano(a, c) == Sign(a) * Sign(c) * DivNano(Abs(a), Abs(c))

-----------------------------------------------------------------------------
(* np.log *)

MantBits == 28

FracBits == 24

\* ln 2 in units of 10^-9.
Ln2Nano == 693147181

RECURSIVE ILog2(_)
ILog2(n) == IF n < 2 THEN 0 ELSE 1 + ILog2(n \div 2)

\* floor(m * m / 2^MantBits) for 0 <= m < 2^(MantBits + 1), by halves of m
\* (m = h * 2^15 + l), so that no product exceeds 2^30.
SquareFix(m) ==
    LET h == m \div 2^15
        l == m % 2^15
    IN  h * h * 2^(30 - MantBits)
          + ((h * l + ((l * l) \div 2^16)) \div 2^(MantBits - 16))

\* The FracBits fractional bits of log2(m / 2^MantBits), 2^MantBits <= m < 2^(MantBits+1).
RECURSIVE Log2Frac(_, _)
Log2Frac(m, bits) ==
    IF bits = 0 THEN 0
    ELSE LET sq == SquareFix(m)
         IN  IF sq >= 2^(MantBits + 1)
             THEN 2^(bits - 1) + Log2Frac(sq \div 2, bits - 1)
             ELSE Log2Frac(sq, bits - 1)

\* log2(n) * 2^FracBits for an integer 1 <= n < 2^(MantBits + 1).
Log2Fix(n) ==
    LET e == ILog2(n)
    IN  e * 2^FracBits + Log2Frac(n * 2^(MantBits - e), FracBits)

\* ln(num / den) in 10^-7, for integers 1 <= num, den < 2^(MantBits + 1).
Ln(num, den) ==
    LET d == Log2Fix(num) - Log2Fix(den)
        t == MulShift30(Abs(d), Ln2Nano)
    IN  Sign(d) * MulDivSmall(t, 2^(30 - FracBits), 10^2)

-----------------------------------------------------------------------------
(* VB Age Estimator: calculate_male_age, calculate_female_age *)

\* Default arguments of the two estimators: L8 in 10^-3 cm, k in 10^-2.
Male_L8 == 264200

Male_b == 50

Male_k == 16

Female_L8 == 323900

Female_b == 50

Female_k == 11

\* A plausible slip in the VB equation: b * (...) where (1/b) * (...) is meant.
VBEquation_bNotInverted(Lt, L8, b, k) ==
    CASE Lt.k = "nan" -> NaN
      [] Lt.k = "inf" -> IF Lt.v > 0 THEN NaN ELSE NegInf
      [] OTHER ->
           LET num == L8 - Lt.v
           IN  IF num < 0 THEN NaN
               ELSE IF num = 0 THEN PosInf
               ELSE Fin(SMulDivSmall(-(Ln(num, L8) + Ln(b, 1)), 10, k))

\* Age = np.log((1/b) * (1 - (Lt / L8))) / (-k) under np.errstate(ignore):
\*   Lt NaN              -> NaN
\*   Lt = +inf           -> log(-inf) = NaN
\*   Lt = -inf           -> log(+inf) / (-k) = -inf
\*   Lt > L8             -> log of a negative number = NaN
\*   Lt = L8             -> log(0) / (-k) = -inf / (-k) = +inf
\*   Lt < L8             -> ln((L8 - Lt) / (b * L8)) / (-k)
\* The sign of a finite age is that of b * L8 - (L8 - Lt), also when its
\* magnitude is below the grid.
VBEquation(Lt, L8, b, k) ==
    CASE Lt.k = "nan" -> NaN
      [] Lt.k = "inf" -> IF Lt.v > 0 THEN NaN ELSE NegInf
      [] OTHER ->
           LET num == L8 - Lt.v
               age == SMulDivSmall(-Ln(num, b * L8), 10, k)
           IN  IF num < 0 THEN NaN
               ELSE IF num = 0 THEN PosInf
               ELSE IF num < b * L8 THEN Fin(IF age < 1 THEN 1 ELSE age)
               ELSE IF num = b * L8 THEN Fin(0)
               ELSE Fin(IF age > -1 THEN -1 ELSE age)

\* A plausible slip: the isinf test left out of the guard.
calculate_male_age_noInfCheck(Lt) ==
    LET Age == VBEquation(Lt, Male_L8, Male_b, Male_k)
    IN  IF LeZero(Age) \/ isnan(Age) THEN NaN ELSE Age

calculate_male_age(Lt) ==
    LET Age == VBEquation(Lt, Male_L8, Male_b, Male_k)
    IN  IF LeZero(Age) \/ isinf(Age) \/ isnan(Age) THEN NaN ELSE Age

calculate_female_age(Lt) ==
    LET Age == VBEquation(Lt, Female_L8, Female_b, Female_k)
    IN  IF LeZero(Age) \/ isinf(Age) \/ isnan(Age) THEN NaN ELSE Age

-----------------------------------------------------------------------------
(* The DataFrame: a function from column names to columns of equal length *)

NoFrame == << >>

Columns(df) == DOMAIN df

NumRows(df) == IF Columns(df) = {} THEN 0 ELSE Len(df[CHOOSE c \in Columns(df) : TRUE])

\* df[name] = cells: a new column is added, an existing one is overwritten.
SetColumn(df, name, cells) ==
    [c \in Columns(df) \cup {name} |-> IF c = name THEN cells ELSE df[c]]

-----------------------------------------------------------------------------
(* Length Normalizer: the "Impute Missing Fork Length" cell *)

\* TL = 1.2533 * FL + 3.472: the offset in 10^-3 cm, the factor in 10^-4.
TL_Offset == 3472

TL_Factor == 12533

\* (TL - 3.472) / 1.2533 on one cell.
ForkFromTotal(TL) ==
    CASE TL.k = "nan" -> NaN
      [] TL.k = "inf" -> TL
      [] OTHER -> Fin(SMulDivSmall(TL.v - TL_Offset, 10^4, TL_Factor))

ImputeRaises(df) == "FL (mm)" \notin Columns(df) /\ "TL (mm)" \notin Columns(df)

\* A plausible slip: the conversion done whether or not the column exists.
ImputedFrame_unconditional(df) ==
    IF "TL (mm)" \in Columns(df)
    THEN SetColumn(df, "FL (mm)",
                   [i \in 1..NumRows(df) |-> ForkFromTotal(df["TL (mm)"][i])])
    ELSE df

\* if 'FL (mm)' not in columns: df['FL (mm)'] = (df['TL (mm)'] - 3.472) / 1.2533
ImputedFrame(df) ==
    IF "FL (mm)" \notin Columns(df)
    THEN SetColumn(df, "FL (mm)",
                   [i \in 1..NumRows(df) |-> ForkFromTotal(df["TL (mm)"][i])])
    ELSE df

-----------------------------------------------------------------------------
(* calculate_age(row) and its apply over the rows *)

\* row['Sex'] is read first; row['FL (cm)'] only for a Male or Female row.
calculate_age_raises(df, i) ==
    \/ "Sex" \notin Columns(df)
    \/ /\ df["Sex"][i] \in {"Male", "Female"}
       /\ "FL (cm)" \notin Columns(df)

calculate_age(df, i) ==
    IF df["Sex"][i] = "Male" THEN calculate_male_age(df["FL (cm)"][i])
    ELSE IF df["Sex"][i] = "Female" THEN calculate_female_age(df["FL (cm)"][i])
    ELSE NaN

-----------------------------------------------------------------------------
(* Correction Calibrator: LinearRegression().fit on the rows of the array *)

\* The vertebral-aged fork lengths of the source, in 10^-3 cm.
Source_FL_1 == 292000

Source_FL_2 == 243000

\* The rows of the source's Vertebral_vb_array, in 10^-6 years.
Source_Vertebral_1 == 16500000

Source_VB_1 == 56635017

Source_Vertebral_2 == 11500000

Source_VB_2 == 48174946

VertebralAge(arr, j) == arr[j][1]

VbAge(arr, j) == arr[j][2]

Mean2(p, q) == (p + q) \div 2

\* Ordinary least squares of Vertebral Age on VB Age for a two-row array, as
\* sklearn fits it: on centred data, coef_ = Sxy / Sxx, and the minimum-norm
\* solution coef_ = 0 when the VB ages do not vary; intercept_ =
\* mean(y) - coef_ * mean(x).  No exception is raised in either case.
FitSlope(arr) ==
    IF VbAge(arr, 1) = VbAge(arr, 2) THEN 0
    ELSE SDivNano(VertebralAge(arr, 1) - VertebralAge(arr, 2),
                  VbAge(arr, 1) - VbAge(arr, 2))

FitIntercept(arr) ==
    Mean2(VertebralAge(arr, 1), VertebralAge(arr, 2))
      - SMulNano(FitSlope(arr), Mean2(VbAge(arr, 1), VbAge(arr, 2)))

\* model.predict(x) = coef_ * x + intercept_
Predict(m, c, x) == SMulNano(m, x) + c

-----------------------------------------------------------------------------
(* Age Corrector: correction_coefficient *)

\* The literals of correction_coefficient: slope in 10^-9, intercept in 10^-6.
Hard_Slope == 591011588

Hard_Intercept == -16971951

\* A plausible slip: a missing age replaced by 0 before the correction.
correction_coefficient_fillna(m) ==
    CASE m.k = "nan" -> Fin(Hard_Intercept)
      [] m.k = "inf" -> m
      [] OTHER -> Fin(SMulNano(m.v, Hard_Slope) + Hard_Intercept)

\* Age_correction = m * 0.5910115884370238 - 16.971951358327846
correction_coefficient(m) ==
    CASE m.k = "nan" -> NaN
      [] m.k = "inf" -> m
      [] OTHER -> Fin(SMulNano(m.v, Hard_Slope) + Hard_Intercept)

-----------------------------------------------------------------------------
(* Inputs *)

MaxRows == 2

Unset == [k |-> "unset", v |-> 0]

\* Columns an input file may have, and the cells each may hold.  "NaN" in
\* the Sex column is an empty cell.
InputColumns == {"Sex", "TL (mm)", "FL (mm)", "FL (cm)", "Modified VB Age"}

CellValues(c) ==
    CASE c = "Sex" -> {"Male", "Female", "Unknown", "NaN"}
      [] c = "TL (mm)" -> {Fin(308024)}
      [] c = "FL (mm)" -> {NaN, Fin(243000)}
      [] c = "FL (cm)" -> {NaN, Fin(292000)}
      [] OTHER -> {Fin(5000000)}

\* The files with columns cols and n rows.
ColumnChoices(cols, c, n) == IF c \in cols THEN [1..n -> CellValues(c)] ELSE {<< >>}

InputFiles(cols, n) ==
    { [c \in cols |-> CASE c = "Sex" -> sx [] c = "TL (mm)" -> tl [] c = "FL (mm)" -> fm
                        [] c = "FL (cm)" -> fc [] OTHER -> mv] :
        sx \in ColumnChoices(cols, "Sex", n),
        tl \in ColumnChoices(cols, "TL (mm)", n),
        fm \in ColumnChoices(cols, "FL (mm)", n),
        fc \in ColumnChoices(cols, "FL (cm)", n),
        mv \in ColumnChoices(cols, "Modified VB Age", n) }

\* The reference data are two literals that the notebook asks its user to
\* edit ("add these to the list below, and use their respective age
\* calculation (by sex) in the following cells"): the source's values, and
\* edits of them.  The second list holds one fork length twice; the second
\* array changes a vertebral age; the third holds one VB age twice.
RefFLChoices ==
    { <<Source_FL_1, Source_FL_2>>,
      <<Source_FL_2, Source_FL_2>> }

VbArrayChoices ==
    { << <<Source_Vertebral_1, Source_VB_1>>, <<Source_Vertebral_2, Source_VB_2>> >>,
      << <<Source_Vertebral_1 + 10^6, Source_VB_1>>, <<Source_Vertebral_2, Source_VB_2>> >>,
      << <<Source_Vertebral_1, Source_VB_2>>, <<Source_Vertebral_2, Source_VB_2>> >> }

-----------------------------------------------------------------------------
(* The notebook run *)

CallIdle ==
    /\ call_pc = "idle"
    /\ call_sex = "none"
    /\ call_Lt = Unset
    /\ call_Age = Unset

Init ==
    /\ pc = "read_csv"
    /\ \E cols \in (SUBSET InputColumns) \ {{}}, n \in 1..MaxRows :
           GHH_CSV \in InputFiles(cols, n)
    /\ Adult_specimens = NoFrame
    /\ Vertebral_aged_FL = << >>
    /\ Vertebral_vb_estimation = << >>
    /\ Vertebral_vb_array = << >>
    /\ slope = Unset
    /\ intercept = Unset
    /\ y_pred = << >>
    /\ error = "none"
    /\ written = NoFrame
    /\ CallIdle

Fail(e) ==
    /\ pc' = "failed"
    /\ error' = e

\* Adult_specimens = pd.read_csv('GHH_CSV.csv')
ReadCsv ==
    /\ pc = "read_csv"
    /\ Adult_specimens' = GHH_CSV
    /\ pc' = "impute"
    /\ UNCHANGED <<GHH_CSV, Vertebral_aged_FL, Vertebral_vb_estimation,
                   Vertebral_vb_array, slope, intercept, y_pred, error, written,
                   call_pc, call_sex, call_Lt, call_Age>>

\* The "Impute Missing Fork Length Values" cell.
ImputeForkLength ==
    /\ pc = "impute"
    /\ IF ImputeRaises(Adult_specimens)
       THEN /\ Fail("KeyError: 'TL (mm)'")
            /\ UNCHANGED Adult_specimens
       ELSE /\ Adult_specimens' = ImputedFrame(Adult_specimens)
            /\ pc' = "calculate_age"
            /\ UNCHANGED error
    /\ UNCHANGED <<GHH_CSV, Vertebral_aged_FL, Vertebral_vb_estimation,
                   Vertebral_vb_array, slope, intercept, y_pred, written,
                   call_pc, call_sex, call_Lt, call_Age>>

\* Adult_specimens['Modified VB Age'] = Adult_specimens.apply(calculate_age, axis=1)
ApplyCalculateAge ==
    /\ pc = "calculate_age"
    /\ IF \E i \in 1..NumRows(Adult_specimens) : calculate_age_raises(Adult_specimens, i)
       THEN /\ Fail(IF "Sex" \notin Columns(Adult_specimens)
                    THEN "KeyError: 'Sex'" ELSE "KeyError: 'FL (cm)'")
            /\ UNCHANGED Adult_specimens
       ELSE /\ Adult_specimens' =
                  SetColumn(Adult_specimens, "Modified VB Age",
                            [i \in 1..NumRows(Adult_specimens) |->
                                 calculate_age(Adult_specimens, i)])
            /\ pc' = "vb_estimation"
            /\ UNCHANGED error
    /\ UNCHANGED <<GHH_CSV, Vertebral_aged_FL, Vertebral_vb_estimation,
                   Vertebral_vb_array, slope, intercept, y_pred, written,
                   call_pc, call_sex, call_Lt, call_Age>>

\* Vertebral_aged_FL = [...]; Vertebral_vb_estimation = [calculate_female_age(Lt) ...]
EstimateVertebral ==
    /\ pc = "vb_estimation"
    /\ \E fl \in RefFLChoices :
           /\ Vertebral_aged_FL' = fl
           /\ Vertebral_vb_estimation' =
                  [j \in 1..Len(fl) |-> calculate_female_age(Fin(fl[j]))]
    /\ pc' = "fit"
    /\ UNCHANGED <<GHH_CSV, Adult_specimens, Vertebral_vb_array, slope, intercept,
                   y_pred, error, written, call_pc, call_sex, call_Lt, call_Age>>

\* Vertebral_vb_array = np.array([...]); model.fit(Vb_age_array, Vertebral_age_array);
\* slope, intercept read from the model; y_pred = model.predict(Vertebral_age_array)
FitRegression ==
    /\ pc = "fit"
    /\ \E arr \in VbArrayChoices :
           /\ Vertebral_vb_array' = arr
           /\ slope' = Fin(FitSlope(arr))
           /\ intercept' = Fin(FitIntercept(arr))
           /\ y_pred' = [j \in 1..Len(arr) |->
                            Fin(Predict(FitSlope(arr), FitIntercept(arr),
                                        VertebralAge(arr, j)))]
    /\ pc' = "correction"
    /\ UNCHANGED <<GHH_CSV, Adult_specimens, Vertebral_aged_FL, Vertebral_vb_estimation,
                   error, written, call_pc, call_sex, call_Lt, call_Age>>

\* Adult_specimens['Age Corrected Proxy'] =
\*     Adult_specimens['Modified VB Age'].apply(correction_coefficient)
ApplyCorrection ==
    /\ pc = "correction"
    /\ Adult_specimens' =
           SetColumn(Adult_specimens, "Age Corrected Proxy",
                     [i \in 1..NumRows(Adult_specimens) |->
                          correction_coefficient(Adult_specimens["Modified VB Age"][i])])
    /\ pc' = "to_csv"
    /\ UNCHANGED <<GHH_CSV, Vertebral_aged_FL, Vertebral_vb_estimation,
                   Vertebral_vb_array, slope, intercept, y_pred, error, written,
                   call_pc, call_sex, call_Lt, call_Age>>

\* Adult_specimens.to_csv('Age Corrected Von Bertalanffy Great Hammerheads', index = False)
ToCsv ==
    /\ pc = "to_csv"
    /\ written' = Adult_specimens
    /\ pc' = "done"
    /\ UNCHANGED <<GHH_CSV, Adult_specimens, Vertebral_aged_FL, Vertebral_vb_estimation,
                   Vertebral_vb_array, slope, intercept, y_pred, error,
                   call_pc, call_sex, call_Lt, call_Age>>

Next ==
    \/ ReadCsv
    \/ ImputeForkLength
    \/ ApplyCalculateAge
    \/ EstimateVertebral
    \/ FitRegression
    \/ ApplyCorrection
    \/ ToCsv

Spec == Init /\ [][Next]_vars

-----------------------------------------------------------------------------
(* One call of an estimator, over a range of fork lengths *)

MaxLtSteps == 4000

\* Fork lengths 0.0, 0.1, ... cm, the lengths around both asymptotes, lengths
\* below -49 * L8 (where the equation gives a non-positive age), and the
\* non-finite doubles.
LtInputs ==
    { Fin(i * 10^2) : i \in 0..MaxLtSteps }
      \cup { Fin(L + d) : L \in {Male_L8, Female_L8}, d \in {-1, 0, 1} }
      \cup { Fin(-(49 * L) + d) : L \in {Male_L8, Female_L8}, d \in {-1000, 0, 1000} }
      \cup { Fin(-1000), NaN, PosInf, NegInf }

InitCall ==
    /\ pc = "idle"
    /\ GHH_CSV = NoFrame
    /\ Adult_specimens = NoFrame
    /\ Vertebral_aged_FL = << >>
    /\ Vertebral_vb_estimation = << >>
    /\ Vertebral_vb_array = << >>
    /\ slope = Unset
    /\ intercept = Unset
    /\ y_pred = << >>
    /\ error = "none"
    /\ written = NoFrame
    /\ call_pc = "call"
    /\ call_sex \in {"Male", "Female"}
    /\ call_Lt \in LtInputs
    /\ call_Age = Unset

CallMale ==
    /\ call_pc = "call"
    /\ call_sex = "Male"
    /\ call_Age' = calculate_male_age(call_Lt)
    /\ call_pc' = "returned"
    /\ UNCHANGED <<pc, GHH_CSV, Adult_specimens, Vertebral_aged_FL,
                   Vertebral_vb_estimation, Vertebral_vb_array, slope, intercept,
                   y_pred, error, written, call_sex, call_Lt>>

CallFemale ==
    /\ call_pc = "call"
    /\ call_sex = "Female"
    /\ call_Age' = calculate_female_age(call_Lt)
    /\ call_pc' = "returned"
    /\ UNCHANGED <<pc, GHH_CSV, Adult_specimens, Vertebral_aged_FL,
                   Vertebral_vb_estimation, Vertebral_vb_array, slope, intercept,
                   y_pred, error, written, call_sex, call_Lt>>

NextCall == CallMale \/ CallFemale

SpecCall == InitCall /\ [][NextCall]_vars

-----------------------------------------------------------------------------
(* Vocabulary of the properties *)

AgeTol == 20

L8Of(sex) == IF sex = "Male" THEN Male_L8 ELSE Female_L8

bOf(sex) == IF sex = "Male" THEN Male_b ELSE Female_b

kOf(sex) == IF sex = "Male" THEN Male_k ELSE Female_k

\* ln((1/b) * (1 - FL/L8)) / (-k) written as (ln b + ln L8 - ln(L8 - FL)) / k,
\* in 10^-6 years, for 0 < FL < L8.
ClosedFormAge(sex, FL) ==
    MulDivSmall(Ln(bOf(sex), 1) + Ln(L8Of(sex), 1) - Ln(L8Of(sex) - FL, 1), 10, kOf(sex))

\* The cells already run.
ImputeDone ==
    \/ pc \in {"calculate_age", "vb_estimation", "fit", "correction", "to_csv", "done"}
    \/ pc = "failed" /\ error # "KeyError: 'TL (mm)'"

CalculateAgeDone == pc \in {"vb_estimation", "fit", "correction", "to_csv", "done"}

FitDone == pc \in {"correction", "to_csv", "done"}

CorrectionDone == pc \in {"to_csv", "done"}

Rows == 1..NumRows(GHH_CSV)

\* The VB ages given to the fit are all identical.
ZeroVariance ==
    /\ Vertebral_vb_array # << >>
    /\ \A j \in 1..Len(Vertebral_vb_array) :
           VbAge(Vertebral_vb_array, j) = VbAge(Vertebral_vb_array, 1)

-----------------------------------------------------------------------------
(* C1 *)

\* C1: a call of either estimator with a finite fork length 0 < FL < L8(sex)
\* returns a finite, strictly positive age, never the missing marker, equal
\* within AgeTol to the closed form; for the two reference lengths of the
\* source it is the VB age the source records for them.
C1_EstimatorInsideDomain ==
    (call_pc = "returned" /\ isfinite(call_Lt)
        /\ 0 < call_Lt.v /\ call_Lt.v < L8Of(call_sex))
    => /\ isfinite(call_Age)
       /\ call_Age.v > 0
       /\ Abs(call_Age.v - ClosedFormAge(call_sex, call_Lt.v)) <= AgeTol
       /\ (call_sex = "Female" /\ call_Lt.v = Source_FL_1)
             => Abs(call_Age.v - Source_VB_1) <= AgeTol
       /\ (call_sex = "Female" /\ call_Lt.v = Source_FL_2)
             => Abs(call_Age.v - Source_VB_2) <= AgeTol

C1_Witness ==
    /\ call_pc = "returned"
    /\ call_sex = "Female"
    /\ call_Lt = Fin(Source_FL_1)
    /\ isfinite(call_Age)

-----------------------------------------------------------------------------
(* C2 *)

\* C2: every call of an estimator returns either a finite positive age or
\* the missing marker; for FL >= L8(sex), FL = L8 and FL = +inf included,
\* it returns the missing marker.
C2_EstimatorTotal ==
    call_pc = "returned"
    => /\ isnan(call_Age) \/ (isfinite(call_Age) /\ call_Age.v > 0)
       /\ (isfinite(call_Lt) /\ call_Lt.v >= L8Of(call_sex)) => isnan(call_Age)
       /\ call_Lt = PosInf => isnan(call_Age)

C2_Witness ==
    /\ call_pc = "returned"
    /\ call_sex = "Male"
    /\ call_Lt = Fin(Male_L8)
    /\ isnan(call_Age)

-----------------------------------------------------------------------------
(* C3 *)

\* C3: once the corrector has run after a fit on VB ages that vary, every
\* specimen with a non-missing Uncorrected VB Age u has Corrected Age =
\* slope * u + intercept (within AgeTol), for the slope and intercept the fit
\* of this run produced.
C3_CorrectorUsesFittedParameters ==
    (CorrectionDone /\ ~ZeroVariance) =>
        \A i \in Rows :
            isfinite(Adult_specimens["Modified VB Age"][i]) =>
                /\ isfinite(Adult_specimens["Age Corrected Proxy"][i])
                /\ Abs(Adult_specimens["Age Corrected Proxy"][i].v
                         - Predict(slope.v, intercept.v,
                                   Adult_specimens["Modified VB Age"][i].v)) <= AgeTol

-----------------------------------------------------------------------------
(* C4 *)

\* C4: once the fit has run, the VB ages it was given are the estimator's
\* outputs for the reference fork lengths of this run (within AgeTol).
C4_FitOnEstimatorOutputs ==
    FitDone =>
        \A j \in 1..Len(Vertebral_vb_array) :
            /\ isfinite(Vertebral_vb_estimation[j])
            /\ Abs(VbAge(Vertebral_vb_array, j) - Vertebral_vb_estimation[j].v) <= AgeTol

-----------------------------------------------------------------------------
(* C5 *)

RunNeedsColumns ==
    /\ "Sex" \in Columns(GHH_CSV)
    /\ "FL (cm)" \in Columns(GHH_CSV)
    /\ {"FL (mm)", "TL (mm)"} \cap Columns(GHH_CSV) # {}

\* C5: once the corrector has run, every specimen whose Uncorrected VB Age
\* is missing has a missing Corrected Age; and a run on a file that has the
\* columns the cells read never fails, whatever cells are empty, and writes
\* a row for every specimen.
C5_NullPropagation ==
    /\ CorrectionDone =>
           \A i \in Rows :
               isnan(Adult_specimens["Modified VB Age"][i]) =>
                   isnan(Adult_specimens["Age Corrected Proxy"][i])
    /\ RunNeedsColumns => pc # "failed"
    /\ pc = "done" => NumRows(written) = NumRows(GHH_CSV)

C5_Witness ==
    /\ pc = "done"
    /\ \E i, j \in Rows :
           /\ GHH_CSV["Sex"][i] = "NaN"
           /\ isnan(written["Modified VB Age"][i])
           /\ isnan(written["Age Corrected Proxy"][i])
           /\ i < j
           /\ isfinite(written["Age Corrected Proxy"][j])

-----------------------------------------------------------------------------
(* C6 *)

\* C6: once the normalizer has run, every specimen whose Fork Length was
\* absent from the input (no 'FL (mm)' column, or an empty cell in it) and
\* whose Total Length was present has Fork Length (TL - 3.472) / 1.2533.
C6_ImputePerSpecimen ==
    ImputeDone =>
        \A i \in Rows :
            ( /\ "FL (mm)" \in Columns(GHH_CSV) => isnan(GHH_CSV["FL (mm)"][i])
              /\ "TL (mm)" \in Columns(GHH_CSV)
              /\ isfinite(GHH_CSV["TL (mm)"][i]) )
            => Adult_specimens["FL (mm)"][i] = ForkFromTotal(GHH_CSV["TL (mm)"][i])

-----------------------------------------------------------------------------
(* C7 *)

SexAndTotalLengthOnly ==
    /\ "Sex" \in Columns(GHH_CSV)
    /\ "TL (mm)" \in Columns(GHH_CSV)
    /\ "FL (mm)" \notin Columns(GHH_CSV)
    /\ "FL (cm)" \notin Columns(GHH_CSV)

\* C7: a run on a file with a Sex and a Total Length column and no Fork
\* Length column never fails, and once the estimator has run every
\* specimen's Uncorrected VB Age is the estimate for the Fork Length the
\* normalizer derived.
C7_TotalLengthOnlyInput ==
    SexAndTotalLengthOnly =>
        /\ pc # "failed"
        /\ CalculateAgeDone =>
               \A i \in Rows :
                   Adult_specimens["Modified VB Age"][i] =
                       CASE GHH_CSV["Sex"][i] = "Male" ->
                                calculate_male_age(Adult_specimens["FL (mm)"][i])
                         [] GHH_CSV["Sex"][i] = "Female" ->
                                calculate_female_age(Adult_specimens["FL (mm)"][i])
                         [] OTHER -> NaN

-----------------------------------------------------------------------------
(* C8 *)

\* C8: when the VB ages given to the fit are all identical the run fails:
\* no slope or intercept is produced, no corrected age, no output file.
C8_DegenerateCalibrationIsFatal ==
    ZeroVariance =>
        /\ pc = "failed"
        /\ slope = Unset
        /\ intercept = Unset
        /\ "Age Corrected Proxy" \notin Columns(Adult_specimens)
        /\ written = NoFrame

-----------------------------------------------------------------------------
(* C9 *)

DerivedAges == {"Modified VB Age", "Age Corrected Proxy"}

\* C9 as stated: the exported table has the rows of the input, every input
\* column with its values, and exactly the two age columns appended.
C9_ExactlyTwoAppended ==
    pc = "done" =>
        /\ NumRows(written) = NumRows(GHH_CSV)
        /\ \A c \in Columns(GHH_CSV) : written[c] = GHH_CSV[c]
        /\ DerivedAges \cap Columns(GHH_CSV) = {}
        /\ Columns(written) = Columns(GHH_CSV) \cup DerivedAges

\* C9 as amended: the exported table has the rows of the input in their
\* order; its columns are the input's, the two age columns and 'FL (mm)'
\* (derived when the input had none); every input column keeps its values,
\* except one already named like an age column, which is overwritten.
C9_OutputFrame ==
    pc = "done" =>
        /\ NumRows(written) = NumRows(GHH_CSV)
        /\ Columns(written) = Columns(GHH_CSV) \cup DerivedAges \cup {"FL (mm)"}
        /\ \A c \in Columns(GHH_CSV) \ DerivedAges : written[c] = GHH_CSV[c]

C9_Witness ==
    /\ pc = "done"
    /\ "FL (mm)" \notin Columns(GHH_CSV)
    /\ "FL (mm)" \in Columns(written)
    /\ NumRows(written) = MaxRows

-----------------------------------------------------------------------------
(* C10 *)

RequiredColumnAbsent ==
    \/ "Sex" \notin Columns(GHH_CSV)
    \/ {"TL (mm)", "FL (mm)", "FL (cm)"} \cap Columns(GHH_CSV) = {}

\* C10: a run on a file without the Sex column, or without any length
\* column, stops before a processing cell has run: no cell after the
\* normalizer is ever reached and the table holds no derived field.
C10_SchemaErrorBeforeProcessing ==
    RequiredColumnAbsent =>
        /\ pc \in {"read_csv", "impute", "failed"}
        /\ Adult_specimens \in {NoFrame, GHH_CSV}

=============================================================================
